---- MODULE Spec2Model ----
(***************************************************************************)
(* Model of the citysense Django views:                                    *)
(*   menue/views.py : ITEMS, choice(request)                               *)
(*   map/views.py   : apikey, population(), giza(request, city)            *)
(* The state is the two module globals, the CSV file the loader reads, the *)
(* process's standard output, and the last invocation with its outcome.    *)
(***************************************************************************)
EXTENDS Integers, Sequences, FiniteSets, TLC

VARIABLES
    ITEMS,      \* menue/views.py module global (a Python list)
    apikey,     \* map/views.py module global (a Python str)
    csvFile,    \* data/wadi_gedid_population.csv as found on disk
    stdout,     \* what print() has written, one entry per print call
    call,       \* the last invocation: handler, its arguments, who dispatched
    response,   \* how that invocation ended: render, redirect, return, raise
    csvReads,   \* number of pd.read_csv calls made by that invocation
    invoked,    \* the view functions that ran during that invocation
    recorded    \* history: one earlier giza invocation kept for comparison

vars == <<ITEMS, apikey, csvFile, stdout, call, response, csvReads, invoked, recorded>>

----------------------------------------------------------------------------
(* Bounds *)

MaxCols == 2     \* header names per CSV file
MaxRows == 2     \* data rows per CSV file
MaxPrints == 2   \* print calls kept on stdout

----------------------------------------------------------------------------
(* Python values: Optional[str] is <<>> for None and <<s>> for the str s. *)

None == <<>>

Str(s) == <<s>>

Range(s) == {s[i] : i \in 1..Len(s)}

----------------------------------------------------------------------------
(* Inputs *)

Methods == {"GET", "POST", "PUT", "post"}

FormValues == {"item1", "item2", "item3", "", "Item1", "cairo"}

\* request.POST: the submitted fields; "selected_item" may be absent.
Forms ==
    {f \in UNION {[S -> FormValues] : S \in SUBSET {"selected_item", "other"}} :
        "other" \in DOMAIN f => f["other"] = "cairo"}

Requests == [method : Methods, POST : Forms]

Cities == {"item1", "item2", "item3", "", "cairo", "Item1"}

ColumnNames == {"a", "b", ""}

\* A file is absent, or a sequence of non-blank lines: the first is the header
\* (its fields), the others are data rows (only their field counts matter).
MissingFile == [exists |-> FALSE, header |-> <<>>, rows |-> <<>>]

Headers == UNION {[1..n -> ColumnNames] : n \in 0..MaxCols}

RowCounts == UNION {[1..m -> 1..(MaxCols + 1)] : m \in 0..MaxRows}

AllFiles ==
    {MissingFile} \cup
    {f \in [exists : {TRUE}, header : Headers, rows : RowCounts] :
        f.header = <<>> => f.rows = <<>>}

SampleFiles ==
    { MissingFile,
      [exists |-> TRUE, header |-> <<>>, rows |-> <<>>],
      [exists |-> TRUE, header |-> <<"a", "b">>, rows |-> <<2, 3>>],
      [exists |-> TRUE, header |-> <<"a", "b">>, rows |-> <<2>>],
      [exists |-> TRUE, header |-> <<"a", "a">>, rows |-> <<2>>] }

----------------------------------------------------------------------------
(* django.shortcuts as the views use it *)

render(request, template_name, context) ==
    [kind |-> "render", template |-> template_name, context |-> context]

redirect(to, city) ==
    [kind |-> "redirect", to |-> to, kwargs |-> [city |-> city]]

raise(exception) == [kind |-> "raise", exception |-> exception]

return(value) == [kind |-> "return", value |-> value]

\* request.POST.get(key): the value, or None when the field is absent.
QueryDictGet(POST, key) == IF key \in DOMAIN POST THEN Str(POST[key]) ELSE None

\* What one invocation did: its outcome and its side effects.
Outcome(resp, printed, reads, fns) ==
    [response |-> resp, printed |-> printed, csvReads |-> reads, invoked |-> fns]

----------------------------------------------------------------------------
(* pandas as population() uses it *)

\* Header fields as pandas names the columns: an empty name becomes
\* "Unnamed: <position>", a repeated name gets ".<occurrence>" appended.
Filled(header) ==
    [i \in 1..Len(header) |->
        IF header[i] = "" THEN "Unnamed: " \o ToString(i - 1) ELSE header[i]]

Earlier(names, i) == Cardinality({j \in 1..(i - 1) : names[j] = names[i]})

Columns(header) ==
    LET names == Filled(header) IN
    [i \in 1..Len(header) |->
        IF Earlier(names, i) = 0 THEN names[i]
        ELSE names[i] \o "." \o ToString(Earlier(names, i))]

\* The tokenizer accepts any width for the first data row (extra leading
\* fields become the index), pads short rows, and rejects a later row wider
\* than the table.
TableWidth(file) ==
    IF file.rows = <<>> \/ file.rows[1] <= Len(file.header)
    THEN Len(file.header) ELSE file.rows[1]

TooManyFields(file) == \E i \in 2..Len(file.rows) : file.rows[i] > TableWidth(file)

read_csv(file) ==
    IF ~file.exists THEN raise("FileNotFoundError")
    ELSE IF file.header = <<>> THEN raise("EmptyDataError")
    ELSE IF TooManyFields(file) THEN raise("ParserError")
    ELSE [kind |-> "DataFrame", columns |-> Columns(file.header)]

----------------------------------------------------------------------------
(* map/views.py *)

\* population() with the read guarded: on failure it reports no columns.
population_fallback ==
    LET df == read_csv(csvFile) IN
    IF df.kind = "raise"
    THEN Outcome(return(None), <<(<<>>)>>, 1, {"population"})
    ELSE Outcome(return(None), <<df.columns>>, 1, {"population"})

\* population() reading the file as if it had no header row.
population_noHeader ==
    LET df == read_csv(csvFile) IN
    IF df.kind = "raise"
    THEN Outcome(df, <<>>, 1, {"population"})
    ELSE Outcome(return(None),
                 <<[i \in 1..Len(df.columns) |-> ToString(i - 1)]>>,
                 1, {"population"})

population ==
    LET df == read_csv(csvFile) IN
    IF df.kind = "raise"
    THEN Outcome(df, <<>>, 1, {"population"})
    ELSE Outcome(return(None), <<df.columns>>, 1, {"population"})

\* giza() accepting only the configured cities.
giza_whitelist(request, city) ==
    Outcome(render(request, "map/giza.html",
                   [city |-> IF city \in Range(ITEMS) THEN city ELSE ITEMS[3],
                    apikey |-> apikey]),
            <<>>, 0, {"giza"})

\* giza() taking its key from the population table once that was printed.
giza_keyFromTable(request, city) ==
    Outcome(render(request, "map/giza.html",
                   [city |-> city,
                    apikey |-> IF stdout = <<>> THEN apikey ELSE "loaded"]),
            <<>>, 0, {"giza"})

\* giza() loading the population table before rendering.
giza_loadsPopulation(request, city) ==
    LET p == population IN
    IF p.response.kind = "raise"
    THEN Outcome(p.response, <<>>, p.csvReads, {"giza", "population"})
    ELSE Outcome(render(request, "map/giza.html", [city |-> city, apikey |-> apikey]),
                 p.printed, p.csvReads, {"giza", "population"})

giza(request, city) ==
    Outcome(render(request, "map/giza.html", [city |-> city, apikey |-> apikey]),
            <<>>, 0, {"giza"})

----------------------------------------------------------------------------
(* menue/views.py *)

\* choice() with the first two table entries exchanged.
choice_swapped(request) ==
    IF request.method = "POST"
    THEN LET selected_item == QueryDictGet(request.POST, "selected_item") IN
         IF selected_item = Str("item1")
         THEN Outcome(redirect("map:giza", ITEMS[2]), <<>>, 0, {"choice"})
         ELSE IF selected_item = Str("item2")
         THEN Outcome(redirect("map:giza", ITEMS[1]), <<>>, 0, {"choice"})
         ELSE Outcome(redirect("map:giza", ITEMS[3]), <<>>, 0, {"choice"})
    ELSE Outcome(render(request, "menue/choice.html", [items |-> ITEMS]),
                 <<>>, 0, {"choice"})

\* choice() treating any request that carries form data as a submission.
choice_anyData(request) ==
    IF request.method = "POST" \/ DOMAIN request.POST # {}
    THEN LET selected_item == QueryDictGet(request.POST, "selected_item") IN
         IF selected_item = Str("item1")
         THEN Outcome(redirect("map:giza", ITEMS[1]), <<>>, 0, {"choice"})
         ELSE IF selected_item = Str("item2")
         THEN Outcome(redirect("map:giza", ITEMS[2]), <<>>, 0, {"choice"})
         ELSE Outcome(redirect("map:giza", ITEMS[3]), <<>>, 0, {"choice"})
    ELSE Outcome(render(request, "menue/choice.html", [items |-> ITEMS]),
                 <<>>, 0, {"choice"})

\* choice() reading the field with request.POST["selected_item"].
choice_strict(request) ==
    IF request.method = "POST"
    THEN IF "selected_item" \notin DOMAIN request.POST
         THEN Outcome(raise("MultiValueDictKeyError"), <<>>, 0, {"choice"})
         ELSE LET selected_item == Str(request.POST["selected_item"]) IN
              IF selected_item = Str("item1")
              THEN Outcome(redirect("map:giza", ITEMS[1]), <<>>, 0, {"choice"})
              ELSE IF selected_item = Str("item2")
              THEN Outcome(redirect("map:giza", ITEMS[2]), <<>>, 0, {"choice"})
              ELSE Outcome(redirect("map:giza", ITEMS[3]), <<>>, 0, {"choice"})
    ELSE Outcome(render(request, "menue/choice.html", [items |-> ITEMS]),
                 <<>>, 0, {"choice"})

\* choice() passing the submitted value through in the default branch.
choice_passThrough(request) ==
    IF request.method = "POST"
    THEN LET selected_item == QueryDictGet(request.POST, "selected_item") IN
         IF selected_item = Str("item1")
         THEN Outcome(redirect("map:giza", ITEMS[1]), <<>>, 0, {"choice"})
         ELSE IF selected_item = Str("item2")
         THEN Outcome(redirect("map:giza", ITEMS[2]), <<>>, 0, {"choice"})
         ELSE IF selected_item = None
         THEN Outcome(redirect("map:giza", ITEMS[3]), <<>>, 0, {"choice"})
         ELSE Outcome(redirect("map:giza", selected_item[1]), <<>>, 0, {"choice"})
    ELSE Outcome(render(request, "menue/choice.html", [items |-> ITEMS]),
                 <<>>, 0, {"choice"})

choice(request) ==
    IF request.method = "POST"
    THEN LET selected_item == QueryDictGet(request.POST, "selected_item") IN
         IF selected_item = Str("item1")
         THEN Outcome(redirect("map:giza", ITEMS[1]), <<>>, 0, {"choice"})
         ELSE IF selected_item = Str("item2")
         THEN Outcome(redirect("map:giza", ITEMS[2]), <<>>, 0, {"choice"})
         ELSE Outcome(redirect("map:giza", ITEMS[3]), <<>>, 0, {"choice"})
    ELSE Outcome(render(request, "menue/choice.html", [items |-> ITEMS]),
                 <<>>, 0, {"choice"})

----------------------------------------------------------------------------
(* Invocations *)

NoRequest == [method |-> "GET", POST |-> <<>>]

GizaRequests == [method : {"GET", "POST"}, POST : {<<>>}]

NoCall == [handler |-> "none", request |-> NoRequest, city |-> None, via |-> "none"]

\* The invocation c ran to its end with outcome o.
Finish(c, o) ==
    /\ call' = c
    /\ response' = o.response
    /\ stdout' = stdout \o o.printed
    /\ csvReads' = o.csvReads
    /\ invoked' = o.invoked

\* History: the recorded giza invocation notes each handler run after it.
Note(handler) ==
    IF recorded = <<>> THEN <<>>
    ELSE <<[recorded[1] EXCEPT !.between = @ \cup {handler}]>>

\* choice() keeping the last submitted value in its table.
ChoiceRemembering(request) ==
    /\ Finish([handler |-> "choice", request |-> request, city |-> None,
               via |-> "request"], choice(request))
    /\ ITEMS' = IF request.method = "POST" /\ "selected_item" \in DOMAIN request.POST
                THEN [ITEMS EXCEPT ![3] = request.POST["selected_item"]]
                ELSE ITEMS
    /\ recorded' = Note("choice")
    /\ UNCHANGED <<apikey, csvFile>>

\* The routing layer dispatches a request to choice.
Choice(request) ==
    /\ Finish([handler |-> "choice", request |-> request, city |-> None,
               via |-> "request"], choice(request))
    /\ recorded' = Note("choice")
    /\ UNCHANGED <<ITEMS, apikey, csvFile>>

\* giza runs for a request that reached it by the way `via`.
GizaCall(request, city, via) ==
    LET o == giza(request, city) IN
    /\ Finish([handler |-> "giza", request |-> request, city |-> Str(city),
               via |-> via], o)
    /\ recorded' \in
         IF recorded = <<>>
         THEN {<<>>, <<[city |-> city, response |-> o.response, between |-> {}]>>}
         ELSE {Note("giza")}
    /\ UNCHANGED <<ITEMS, apikey, csvFile>>

\* The routing layer dispatches a request for a city's map page to giza.
Giza(request, city) == GizaCall(request, city, "request")

\* The client follows the redirect choice issued: the routing layer resolves
\* the route name and calls the view with the keyword arguments it carries.
FollowRedirect ==
    /\ response.kind = "redirect"
    /\ response.to = "map:giza"
    /\ GizaCall(NoRequest, response.kwargs.city, "redirect")

\* population() is called on its own (no route leads to it).
Population ==
    /\ Len(stdout) < MaxPrints
    /\ Finish([handler |-> "population", request |-> NoRequest, city |-> None,
               via |-> "direct"], population)
    /\ recorded' = Note("population")
    /\ UNCHANGED <<ITEMS, apikey, csvFile>>

----------------------------------------------------------------------------
(* Specifications *)

InitState ==
    /\ ITEMS = <<"item1", "item2", "item3">>
    /\ apikey = ""
    /\ stdout = <<>>
    /\ call = NoCall
    /\ response = [kind |-> "none"]
    /\ csvReads = 0
    /\ invoked = {}
    /\ recorded = <<>>

Init == InitState /\ csvFile \in SampleFiles

Next ==
    \/ \E request \in Requests : Choice(request)
    \/ \E request \in GizaRequests, city \in Cities : Giza(request, city)
    \/ FollowRedirect
    \/ Population

Spec == Init /\ [][Next]_vars

\* The loader alone, over every file within the bounds.
InitLoader == InitState /\ csvFile \in AllFiles

NextLoader == Population

SpecLoader == InitLoader /\ [][NextLoader]_vars

----------------------------------------------------------------------------
(* Properties *)

ConfiguredItems == <<"item1", "item2", "item3">>

ChoicePost == call.handler = "choice" /\ call.request.method = "POST"

Selected(v) ==
    /\ "selected_item" \in DOMAIN call.request.POST
    /\ call.request.POST["selected_item"] = v

\* C1: on a POST, choice redirects with city ITEMS[0] when selected_item is
\* exactly "item1", ITEMS[1] when it is exactly "item2", and ITEMS[2] for any
\* other value or when the field is absent.
C1_SelectionByEquality ==
    ChoicePost =>
        /\ response.kind = "redirect"
        /\ Selected("item1") => response.kwargs.city = ITEMS[1]
        /\ Selected("item2") => response.kwargs.city = ITEMS[2]
        /\ (~Selected("item1") /\ ~Selected("item2")) => response.kwargs.city = ITEMS[3]

C1_Witness ==
    /\ ChoicePost
    /\ "selected_item" \notin DOMAIN call.request.POST
    /\ response.kind = "redirect"
    /\ response.kwargs.city = "item3"

\* C2: a request to choice whose method is not exactly "POST" gets no
\* redirect, whatever form data it carries: the choice page is rendered with
\* items = ["item1", "item2", "item3"] and nothing else in the context.
C2_NonPostRendersItems ==
    (call.handler = "choice" /\ call.request.method # "POST") =>
        response = [kind |-> "render", template |-> "menue/choice.html",
                    context |-> [items |-> ConfiguredItems]]

C2_Witness ==
    /\ call.handler = "choice"
    /\ call.request.method = "post"
    /\ Selected("item1")
    /\ response.kind = "render"

\* C3: giza renders the map template with the city it was given, unchanged,
\* and the empty apikey, for every city string.
C3_CityEchoed ==
    call.handler = "giza" =>
        response = [kind |-> "render", template |-> "map/giza.html",
                    context |-> [city |-> call.city[1], apikey |-> ""]]

C3_Witness ==
    /\ call.handler = "giza"
    /\ call.city = Str("cairo")
    /\ response.kind = "render"
    /\ response.context.city = "cairo"

\* C4: two invocations of giza with the same city give the same response,
\* whatever handlers ran in between.
C4_GizaIdempotent ==
    (recorded # <<>> /\ call.handler = "giza" /\ call.city = Str(recorded[1].city)) =>
        response = recorded[1].response

C4_Witness ==
    /\ recorded # <<>>
    /\ recorded[1].between = {"choice", "giza", "population"}
    /\ stdout # <<>>
    /\ call.handler = "giza"
    /\ call.city = Str(recorded[1].city)
    /\ response = recorded[1].response

\* C5: when the CSV file is missing or unparsable, population() ends with the
\* error read_csv raised, after a single read, and prints nothing.
C5_LoaderFailurePropagates ==
    [][(call'.handler = "population" /\ read_csv(csvFile).kind = "raise") =>
          /\ response'.kind = "raise"
          /\ response' = read_csv(csvFile)
          /\ stdout' = stdout
          /\ csvReads' = 1]_vars

C5_Witness ==
    /\ call.handler = "population"
    /\ csvFile.exists
    /\ response.kind = "raise"
    /\ response.exception = "ParserError"
    /\ stdout = <<>>

WellNamed(header) ==
    /\ \A i \in 1..Len(header) : header[i] # ""
    /\ \A i, j \in 1..Len(header) : header[i] = header[j] => i = j

LastPrinted == stdout[Len(stdout)]

C7_ChoiceNeverFails ==
    call.handler = "choice" =>
        /\ response.kind \in {"redirect", "render"}
        /\ call.request.method = "POST" =>
              /\ response.kind = "redirect"
              /\ response.to = "map:giza"
              /\ response.kwargs.city \in Range(ITEMS)

C7_Witness ==
    /\ ChoicePost
    /\ Selected("")
    /\ response.kind = "redirect"
    /\ response.kwargs.city \in Range(ITEMS)

ResolvedCity(POST) ==
    IF "selected_item" \in DOMAIN POST /\ POST["selected_item"] = "item1" THEN "item1"
    ELSE IF "selected_item" \in DOMAIN POST /\ POST["selected_item"] = "item2" THEN "item2"
    ELSE "item3"

\* C8: a submission handled by choice ends in a redirect to 'map:giza'; when
\* that redirect is followed, the next handler is giza with the city the
\* redirect carried, the page rendered has the city resolved from
\* selected_item, and that city is one of ITEMS.
C8_RedirectThenMap ==
    [][/\ (call'.handler = "choice" /\ call'.request.method = "POST") =>
             (response'.kind = "redirect" /\ response'.to = "map:giza")
       /\ call'.via = "redirect" =>
             /\ call.handler = "choice"
             /\ call.request.method = "POST"
             /\ response.kind = "redirect"
             /\ call'.handler = "giza"
             /\ call'.city = Str(response.kwargs.city)
             /\ response'.kind = "render"
             /\ response'.context.city = ResolvedCity(call.request.POST)
             /\ response'.context.city \in Range(ConfiguredItems)]_vars

C8_Witness ==
    /\ call.handler = "giza"
    /\ call.via = "redirect"
    /\ call.city = Str("item2")
    /\ response.kind = "render"
    /\ response.context.city = "item2"

\* C9: after any sequence of invocations the module globals are what they
\* were at import: ITEMS = ["item1", "item2", "item3"] and apikey = "".
C9_GlobalsUnchanged ==
    /\ ITEMS = ConfiguredItems
    /\ apikey = ""

C9_Witness ==
    /\ recorded # <<>>
    /\ recorded[1].between = {"choice", "giza", "population"}
    /\ Len(stdout) = MaxPrints
    /\ ChoicePost
    /\ Selected("cairo")
    /\ ITEMS = ConfiguredItems

\* C10: a request handled by choice or giza never runs population() nor reads
\* the CSV file, so it never fails because of that file.
C10_LoaderOffRequestPath ==
    call.handler \in {"choice", "giza"} =>
        /\ csvReads = 0
        /\ "population" \notin invoked
        /\ response.kind # "raise"

C10_Witness ==
    /\ ~csvFile.exists
    /\ call.handler = "giza"
    /\ call.via = "redirect"
    /\ csvReads = 0
    /\ response.kind = "render"

====
